---- MODULE Spec2Model ----
(***************************************************************************)
(* Model of deduplex (src/deduplex.py): the duplicate finder, the review   *)
(* loop over the duplicate sets, and the two commit steps (playlist or     *)
(* delete).  A track of the library is identified by its position in the   *)
(* list searchTracks() returned; strings are sequences of characters, so   *)
(* that the digest of a track is the real concatenation of its fields.     *)
(***************************************************************************)
EXTENDS Integers, Sequences, FiniteSets

\* Largest library the model scans.
MaxTracks == 4

\* T(title, artist, album, duration): what the model reads of a plex Track
T(title, artist, album, duration) ==
    [title |-> title, artist |-> artist, album |-> album, duration |-> duration]

\* The tracks a library is made of: a track, the four tracks that differ from it
\* in exactly one field, and a track with another title and artist whose
\* concatenated fields read the same.
TrackRecords ==
    { T(<<"A">>,      <<"B", "C">>, <<"X">>,      1),
      T(<<"A", "B">>, <<"B", "C">>, <<"X">>,      1),
      T(<<"A">>,      <<"C">>,      <<"X">>,      1),
      T(<<"A">>,      <<"B", "C">>, <<"X", "1">>, 1),
      T(<<"A">>,      <<"B", "C">>, <<"X">>,      2),
      T(<<"A", "B">>, <<"C">>,      <<"X">>,      1) }

TrackLists == UNION { [1..n -> TrackRecords] : n \in 0..MaxTracks }

DEFAULT_DUPLICATE_PLAYLIST_NAME == "GoshDarned Duplicates"

VARIABLES
    pc,               \* position of main()
    all_tracks,       \* the library's tracks, in the order searchTracks() returns them
    unique_tracks,    \* duplicate_finder's dict, as its entries in insertion order
    return_sets,      \* songs_with_duplicates: the duplicate sets, each a list of tracks
    flagged,          \* flagged_for_deletion of each JHSTrack
    enable_safe_mode, \* main()'s enable_safe_mode
    track_set_index,  \* the review loop's cursor
    delete_tracks,    \* delete_duplicates' list of tracks to delete
    delete_calls,     \* the track.delete() calls made, each with its outcome
    catalog,          \* the tracks still on the server
    playlist_calls,   \* the createPlaylist calls made
    status,           \* how the run ended
    exit_code,        \* the process's exit code
    set_attrs,        \* title, artist, album, duration, duplicate_count of each set
    gd_duplicate_tracks, \* the members of a GDDuplicateSet exercised on its own
    gd_plex_track,    \* a GDPlexTrack exercised on its own
    lookups,          \* the times the accessor went to the plex track for its userRating
    result            \* what the last call on the set or on the track returned

\* the state of a run of main()
mainvars == << pc, all_tracks, unique_tracks, return_sets, flagged, enable_safe_mode,
               track_set_index, delete_tracks, delete_calls, catalog, playlist_calls,
               status, exit_code, set_attrs >>

\* the state of the objects of src/models exercised on their own
gdvars == << gd_duplicate_tracks, gd_plex_track, lookups, result >>

vars == << mainvars, gdvars >>

-----------------------------------------------------------------------------
\* Helpers

Min(a, b) == IF a < b THEN a ELSE b
Max(a, b) == IF a > b THEN a ELSE b

Range(s) == { s[k] : k \in DOMAIN s }

RECURSIVE Concat(_)
Concat(ss) == IF ss = << >> THEN << >> ELSE Head(ss) \o Concat(Tail(ss))

-----------------------------------------------------------------------------
\* JHSTrack

DigitChar(d) == << "0", "1", "2", "3", "4", "5", "6", "7", "8", "9" >>[d + 1]

\* str() of a non-negative int: its decimal digits
RECURSIVE IntToStr(_)
IntToStr(n) == IF n < 10 THEN << DigitChar(n) >>
               ELSE Append(IntToStr(n \div 10), DigitChar(n % 10))

\* a digest that leaves the duration out
hash_val_NoDuration(t) == t.title \o t.artist \o t.album

\* self.hash_val = str(f"{self.title}{self.artist}{self.album}{self.duration}")
hash_val(t) == t.title \o t.artist \o t.album \o IntToStr(t.duration)

-----------------------------------------------------------------------------
\* duplicate_finder

KeyIndex(unique, h) == { k \in DOMAIN unique : unique[k].hash = h }

\* the track goes to the front of its digest's list
AddTrack_Prepend(unique, i, h) ==
    IF KeyIndex(unique, h) = {}
    THEN Append(unique, [hash |-> h, tracks |-> << i >>])
    ELSE LET k == CHOOSE k \in KeyIndex(unique, h) : TRUE
         IN  [unique EXCEPT ![k].tracks = << i >> \o @]

\* one iteration of the first loop: the track is appended to its digest's list,
\* a new digest is inserted at the end of the dict
AddTrack(unique, i, h) ==
    IF KeyIndex(unique, h) = {}
    THEN Append(unique, [hash |-> h, tracks |-> << i >>])
    ELSE LET k == CHOOSE k \in KeyIndex(unique, h) : TRUE
         IN  [unique EXCEPT ![k].tracks = Append(@, i)]

\* the first loop over tracks i..Len(tracks)
RECURSIVE ScanTracks(_, _, _)
ScanTracks(tracks, i, unique) ==
    IF i > Len(tracks) THEN unique
    ELSE ScanTracks(tracks, i + 1, AddTrack(unique, i, hash_val(tracks[i])))

\* every digest's list becomes a set
IsDuplicate_AtLeastOne(tracks) == Len(tracks) >= 1

\* if len(tracks) > 1
IsDuplicate(tracks) == Len(tracks) > 1

\* the second loop: one set per dict entry with more than one track, in dict order
RECURSIVE EmitSets(_)
EmitSets(unique) ==
    IF unique = << >> THEN << >>
    ELSE (IF IsDuplicate(Head(unique).tracks) THEN << Head(unique).tracks >> ELSE << >>)
         \o EmitSets(Tail(unique))

-----------------------------------------------------------------------------
\* JHSDuplicateSet

\* every track of the set, flagged or not
flagged_delete_jhs_tracks_All(duplicate_tracks, flags) == duplicate_tracks

\* the flagged tracks of a set, in member order
flagged_delete_jhs_tracks(duplicate_tracks, flags) ==
    SelectSeq(duplicate_tracks, LAMBDA t : flags[t])

\* the flagged tracks of a set, last member first
flagged_delete_plex_tracks_Reversed(duplicate_tracks, flags) ==
    LET f == SelectSeq(duplicate_tracks, LAMBDA t : flags[t])
    IN  [k \in 1..Len(f) |-> f[Len(f) + 1 - k]]

\* the underlying plex tracks of the flagged tracks of a set, in member order
flagged_delete_plex_tracks(duplicate_tracks, flags) ==
    SelectSeq(duplicate_tracks, LAMBDA t : flags[t])

\* the first member's flag is flipped, whatever the index
toggle_delete_First(duplicate_tracks, flags, index) ==
    [flags EXCEPT ![duplicate_tracks[1]] = ~@]

\* self.duplicate_tracks[index].flagged_for_deletion = not ...
toggle_delete(duplicate_tracks, flags, index) ==
    [flags EXCEPT ![duplicate_tracks[index + 1]] = ~@]

\* the set keeps the fields of its last member
JHSDuplicateSet_LastMember(tracks, duplicate_tracks) ==
    LET last == duplicate_tracks[Len(duplicate_tracks)]
    IN  [title           |-> tracks[last].title,
         artist          |-> tracks[last].artist,
         album           |-> tracks[last].album,
         duration        |-> tracks[last].duration,
         duplicate_count |-> Len(duplicate_tracks)]

\* JHSDuplicateSet(duplicate_tracks): what it keeps of its first member, and its size
JHSDuplicateSet(tracks, duplicate_tracks) ==
    [title           |-> tracks[duplicate_tracks[1]].title,
     artist          |-> tracks[duplicate_tracks[1]].artist,
     album           |-> tracks[duplicate_tracks[1]].album,
     duration        |-> tracks[duplicate_tracks[1]].duration,
     duplicate_count |-> Len(duplicate_tracks)]

\* true when the first member is flagged
jhs_all_tracks_selected_FirstOnly(duplicate_tracks, flags) == flags[duplicate_tracks[1]]

\* for track in self.duplicate_tracks: if not track.flagged_for_deletion: return False
RECURSIVE jhs_all_tracks_selected(_, _)
jhs_all_tracks_selected(duplicate_tracks, flags) ==
    IF duplicate_tracks = << >> THEN TRUE
    ELSE IF ~flags[Head(duplicate_tracks)] THEN FALSE
    ELSE jhs_all_tracks_selected(Tail(duplicate_tracks), flags)

-----------------------------------------------------------------------------
\* main

Init ==
    /\ pc = "setup"
    /\ all_tracks \in TrackLists
    /\ unique_tracks = << >>
    /\ return_sets = << >>
    /\ flagged = << >>
    /\ enable_safe_mode = FALSE
    /\ track_set_index = 0
    /\ delete_tracks = << >>
    /\ delete_calls = << >>
    /\ catalog = DOMAIN all_tracks
    /\ playlist_calls = << >>
    /\ status = "running"
    /\ exit_code = -1
    /\ set_attrs = << >>
    /\ gd_duplicate_tracks = << >>
    /\ gd_plex_track = << >>
    /\ lookups = 0
    /\ result = [op |-> "none"]

Exit(code, how) ==
    /\ pc' = "exit"
    /\ exit_code' = code
    /\ status' = how

\* a failed setup is reported and the process ends with code 0
Setup_ExitZero ==
    /\ pc = "setup"
    /\ \E outcome \in {"ok", "login_failed", "no_library_name", "library_not_found"} :
          IF outcome = "ok"
          THEN pc' = "find" /\ UNCHANGED << status, exit_code >>
          ELSE Exit(0, outcome)
    /\ UNCHANGED << all_tracks, unique_tracks, return_sets, flagged, enable_safe_mode,
                    track_set_index, delete_tracks, delete_calls, catalog,
                    playlist_calls >>
    /\ UNCHANGED << set_attrs, gdvars >>

\* setup(console): the library, or GDException and sys.exit(1)
Setup ==
    /\ pc = "setup"
    /\ \E outcome \in {"ok", "login_failed", "no_library_name", "library_not_found"} :
          IF outcome = "ok"
          THEN pc' = "find" /\ UNCHANGED << status, exit_code >>
          ELSE Exit(1, outcome)
    /\ UNCHANGED << all_tracks, unique_tracks, return_sets, flagged, enable_safe_mode,
                    track_set_index, delete_tracks, delete_calls, catalog,
                    playlist_calls >>
    /\ UNCHANGED << set_attrs, gdvars >>

\* songs_with_duplicates, num_tracks = duplicate_finder(the_music_library)
DuplicateFinder ==
    /\ pc = "find"
    /\ LET unique == ScanTracks(all_tracks, 1, << >>)
           sets == EmitSets(unique)
       IN  /\ unique_tracks' = unique
           /\ return_sets' = sets
           /\ set_attrs' = [k \in DOMAIN sets |-> JHSDuplicateSet(all_tracks, sets[k])]
           /\ flagged' = [i \in DOMAIN all_tracks |-> FALSE]
           /\ IF Len(sets) = 0
              THEN Exit(0, "no_duplicates")
              ELSE pc' = "ask_safe_mode" /\ UNCHANGED << status, exit_code >>
    /\ UNCHANGED << all_tracks, enable_safe_mode, track_set_index, delete_tracks,
                    delete_calls, catalog, playlist_calls >>
    /\ UNCHANGED gdvars

\* enable_safe_mode = Confirm.ask("Would you like to enable Safe Mode Delete?")
AskSafeMode ==
    /\ pc = "ask_safe_mode"
    /\ \E a \in BOOLEAN : enable_safe_mode' = a
    /\ pc' = "ask_instructions"
    /\ UNCHANGED << all_tracks, unique_tracks, return_sets, flagged, track_set_index,
                    delete_tracks, delete_calls, catalog, playlist_calls, status,
                    exit_code >>
    /\ UNCHANGED << set_attrs, gdvars >>

\* view_instructions = Confirm.ask("View instructions?"): prints a panel or not
AskInstructions ==
    /\ pc = "ask_instructions"
    /\ \E view_instructions \in BOOLEAN : pc' = "ask_ready"
    /\ UNCHANGED << all_tracks, unique_tracks, return_sets, flagged, enable_safe_mode,
                    track_set_index, delete_tracks, delete_calls, catalog,
                    playlist_calls, status, exit_code >>
    /\ UNCHANGED << set_attrs, gdvars >>

\* answer = Confirm.ask("Ready to continue?"); the review loop starts at set 1
AskReady ==
    /\ pc = "ask_ready"
    /\ \E a \in BOOLEAN :
          IF a
          THEN /\ pc' = "review"
               /\ track_set_index' = 1
               /\ UNCHANGED << status, exit_code >>
          ELSE /\ Exit(0, "cancelled")
               /\ UNCHANGED track_set_index
    /\ UNCHANGED << all_tracks, unique_tracks, return_sets, flagged, enable_safe_mode,
                    delete_tracks, delete_calls, catalog, playlist_calls >>
    /\ UNCHANGED << set_attrs, gdvars >>

-----------------------------------------------------------------------------
\* choose_duplicates_to_delete: one action per iteration of its loop

ReviewUnchanged ==
    /\ UNCHANGED << all_tracks, unique_tracks, return_sets, enable_safe_mode,
                    delete_tracks, delete_calls, catalog, playlist_calls >>
    /\ UNCHANGED << set_attrs, gdvars >>

\* track_set = duplicate_sets[track_set_index-1] finds a set
LookupOk == track_set_index - 1 < Len(return_sets)

\* if track_set.all_tracks_selected: console.print(warn), before the prompt
WarningShown ==
    /\ pc = "review"
    /\ LookupOk
    /\ jhs_all_tracks_selected(return_sets[track_set_index], flagged)

\* elif answer == 'n': track_set_index += 1
NextIndex(index, count) == index + 1

\* the cursor moves back whatever its position
PreviousIndex_Unguarded(index) == index - 1

\* if answer == 'p': if track_set_index > 1: track_set_index -= 1
PreviousIndex(index) == IF index > 1 THEN index - 1 ELSE index

\* the lookup of the current set raises IndexError, which nothing catches
ReviewLookupFails ==
    /\ pc = "review"
    /\ ~LookupOk
    /\ Exit(1, "IndexError")
    /\ UNCHANGED << flagged, track_set_index >>
    /\ ReviewUnchanged

\* moving on clears the flags of the set that is left
ReviewNext_ClearDeletes ==
    /\ pc = "review"
    /\ LookupOk
    /\ track_set_index' = NextIndex(track_set_index, Len(return_sets))
    /\ flagged' = [i \in DOMAIN flagged |->
                      IF i \in Range(return_sets[track_set_index]) THEN FALSE ELSE flagged[i]]
    /\ UNCHANGED << pc, status, exit_code >>
    /\ ReviewUnchanged

ReviewNext ==
    /\ pc = "review"
    /\ LookupOk
    /\ track_set_index' = NextIndex(track_set_index, Len(return_sets))
    /\ UNCHANGED << pc, flagged, status, exit_code >>
    /\ ReviewUnchanged

ReviewPrevious ==
    /\ pc = "review"
    /\ LookupOk
    /\ track_set_index' = PreviousIndex(track_set_index)
    /\ UNCHANGED << pc, flagged, status, exit_code >>
    /\ ReviewUnchanged

\* what the user may type at the prompt: a number from 0 to one past the longest
\* set, or a letter
Inputs == { IntToStr(k) : k \in 0..(MaxTracks + 1) } \cup { << "n" >>, << "p" >>, << "d" >> }

\* the numbers offered start at 0
choices_FromZero(track_set) ==
    [i \in 1..(Len(track_set) + 1) |-> IntToStr(i - 1)] \o << << "n" >>, << "p" >>, << "d" >> >>

\* for i in range(1, len(track_set.duplicate_tracks) + 1): choices.append(str(i))
\* choices.append("n"); choices.append("p"); choices.append("d")
choices(track_set) ==
    [i \in 1..Len(track_set) |-> IntToStr(i)] \o << << "n" >>, << "p" >>, << "d" >> >>

\* Prompt.ask(..., choices=choices) returns an answer among the choices only
Accepted(answer, offered) == answer \in Range(offered)

DigitVal(c) == CHOOSE d \in 0..9 : DigitChar(d) = c

\* int(answer) of a string of decimal digits
RECURSIVE StrToInt(_)
StrToInt(str) ==
    IF Len(str) = 1 THEN DigitVal(str[1])
    ELSE 10 * StrToInt(SubSeq(str, 1, Len(str) - 1)) + DigitVal(str[Len(str)])

\* del_index: int = int(answer) - 1
del_index(answer) == StrToInt(answer) - 1

\* the answer is none of 'd', 'p', 'n': track_set.toggle_delete(del_index)
ReviewToggle ==
    /\ pc = "review"
    /\ LookupOk
    /\ LET track_set == return_sets[track_set_index]
       IN  \E answer \in Inputs :
              /\ Accepted(answer, choices(track_set))
              /\ answer \notin { << "d" >>, << "p" >>, << "n" >> }
              /\ flagged' = toggle_delete(track_set, flagged, del_index(answer))
    /\ UNCHANGED << pc, track_set_index, status, exit_code >>
    /\ ReviewUnchanged

\* leaving the loop clears every flag
ReviewDone_ClearDeletes ==
    /\ pc = "review"
    /\ LookupOk
    /\ pc' = "ask_review_list"
    /\ flagged' = [i \in DOMAIN flagged |-> FALSE]
    /\ UNCHANGED << track_set_index, status, exit_code >>
    /\ ReviewUnchanged

\* if answer == 'd': break
ReviewDone ==
    /\ pc = "review"
    /\ LookupOk
    /\ pc' = "ask_review_list"
    /\ UNCHANGED << flagged, track_set_index, status, exit_code >>
    /\ ReviewUnchanged

-----------------------------------------------------------------------------
\* back in main: the optional listing of the flagged tracks, then the commit

AskReviewList ==
    /\ pc = "ask_review_list"
    /\ \E a \in BOOLEAN : pc' = IF enable_safe_mode THEN "playlist" ELSE "ask_delete"
    /\ UNCHANGED << all_tracks, unique_tracks, return_sets, flagged, enable_safe_mode,
                    track_set_index, delete_tracks, delete_calls, catalog,
                    playlist_calls, status, exit_code >>
    /\ UNCHANGED << set_attrs, gdvars >>

\* delete_tracks += duplicate_set.flagged_delete_plex_tracks(), for each set
PlaylistItems(sets, flags) ==
    Concat([k \in 1..Len(sets) |-> flagged_delete_plex_tracks(sets[k], flags)])

\* the playlist is created and main goes on to the delete branch as well
AddDuplicatesToPlaylist_ThenDelete ==
    /\ pc = "playlist"
    /\ playlist_calls' = Append(playlist_calls,
                                [title |-> DEFAULT_DUPLICATE_PLAYLIST_NAME,
                                 items |-> PlaylistItems(return_sets, flagged)])
    /\ \E ok \in BOOLEAN :
          IF ok THEN pc' = "ask_delete" /\ UNCHANGED << status, exit_code >>
                ELSE Exit(1, "PlaylistFailed")
    /\ UNCHANGED << all_tracks, unique_tracks, return_sets, flagged, enable_safe_mode,
                    track_set_index, delete_tracks, delete_calls, catalog >>
    /\ UNCHANGED << set_attrs, gdvars >>

\* add_duplicates_to_playlist: one createPlaylist call, which may raise
AddDuplicatesToPlaylist ==
    /\ pc = "playlist"
    /\ playlist_calls' = Append(playlist_calls,
                                [title |-> DEFAULT_DUPLICATE_PLAYLIST_NAME,
                                 items |-> PlaylistItems(return_sets, flagged)])
    /\ \E ok \in BOOLEAN :
          IF ok THEN Exit(0, "playlist_created") ELSE Exit(1, "PlaylistFailed")
    /\ UNCHANGED << all_tracks, unique_tracks, return_sets, flagged, enable_safe_mode,
                    track_set_index, delete_tracks, delete_calls, catalog >>
    /\ UNCHANGED << set_attrs, gdvars >>

\* delete_tracks += duplicate_set.flagged_delete_jhs_tracks, for each set
DeleteList(sets, flags) ==
    Concat([k \in 1..Len(sets) |-> flagged_delete_jhs_tracks(sets[k], flags)])

\* the tracks are deleted first and the question is asked afterwards
AskDelete_DeleteBeforeAsking ==
    /\ pc = "ask_delete"
    /\ LET list == DeleteList(return_sets, flagged)
       IN  /\ delete_tracks' = list
           /\ delete_calls' = [k \in 1..Len(list) |-> [track |-> list[k], ok |-> TRUE]]
           /\ catalog' = catalog \ Range(list)
    /\ \E a \in BOOLEAN : IF a THEN Exit(0, "deleted") ELSE Exit(0, "cancelled")
    /\ UNCHANGED << all_tracks, unique_tracks, return_sets, flagged, enable_safe_mode,
                    track_set_index, playlist_calls >>
    /\ UNCHANGED << set_attrs, gdvars >>

\* answer = Confirm.ask("Continue with delete?"); delete_duplicates builds its list
AskDelete ==
    /\ pc = "ask_delete"
    /\ \E a \in BOOLEAN :
          IF a
          THEN /\ pc' = "deleting"
               /\ delete_tracks' = DeleteList(return_sets, flagged)
               /\ UNCHANGED << status, exit_code >>
          ELSE /\ Exit(0, "cancelled")
               /\ UNCHANGED delete_tracks
    /\ UNCHANGED << all_tracks, unique_tracks, return_sets, flagged, enable_safe_mode,
                    track_set_index, delete_calls, catalog, playlist_calls >>
    /\ UNCHANGED << set_attrs, gdvars >>

DeleteUnchanged ==
    /\ UNCHANGED << all_tracks, unique_tracks, return_sets, flagged, enable_safe_mode,
                    track_set_index, delete_tracks, playlist_calls >>
    /\ UNCHANGED << set_attrs, gdvars >>

\* a failed delete is swallowed and the loop goes on
DeleteStep_Swallow ==
    /\ pc = "deleting"
    /\ Len(delete_calls) < Len(delete_tracks)
    /\ LET t == delete_tracks[Len(delete_calls) + 1]
       IN  \E ok \in BOOLEAN :
              /\ delete_calls' = Append(delete_calls, [track |-> t, ok |-> ok])
              /\ catalog' = IF ok THEN catalog \ {t} ELSE catalog
              /\ UNCHANGED << pc, status, exit_code >>
    /\ DeleteUnchanged

\* jhs_track.track.delete() for the next track of the list; a failure propagates
DeleteStep ==
    /\ pc = "deleting"
    /\ Len(delete_calls) < Len(delete_tracks)
    /\ LET t == delete_tracks[Len(delete_calls) + 1]
       IN  \E ok \in BOOLEAN :
              /\ delete_calls' = Append(delete_calls, [track |-> t, ok |-> ok])
              /\ IF ok
                 THEN catalog' = catalog \ {t} /\ UNCHANGED << pc, status, exit_code >>
                 ELSE UNCHANGED catalog /\ Exit(1, "DeleteFailed")
    /\ DeleteUnchanged

\* the loop is over, main returns
DeleteFinish ==
    /\ pc = "deleting"
    /\ Len(delete_calls) = Len(delete_tracks)
    /\ Exit(0, "deleted")
    /\ UNCHANGED << delete_calls, catalog >>
    /\ DeleteUnchanged

Next ==
    \/ Setup
    \/ DuplicateFinder
    \/ AskSafeMode
    \/ AskInstructions
    \/ AskReady
    \/ ReviewLookupFails
    \/ ReviewNext
    \/ ReviewPrevious
    \/ ReviewToggle
    \/ ReviewDone
    \/ AskReviewList
    \/ AddDuplicatesToPlaylist
    \/ AskDelete
    \/ DeleteStep
    \/ DeleteFinish

Spec == Init /\ [][Next]_vars

-----------------------------------------------------------------------------
\* GDPlexTrack (src/models/gd_plex_track.py), exercised on its own

\* Most times the model lets the accessor go to the plex track.
MaxLookups == 4

\* an Optional value: None, or the value
None == << >>
Some(v) == << v >>

\* track.userRating: absent, or 0.0 .. 10.0
UserRatings == {None} \cup { Some(r) : r \in 0..10 }

\* track.duration, in milliseconds
TrackDurations == { 314999, 315000, 320000, 325000, 325001 }

\* the durations and variances durations_are_close is called with
CompareDurations == { 320000, 322000 }
DEFAULT_VARIANCE == 5000
Variances == { 1999, 2000, DEFAULT_VARIANCE }

\* GDPlexTrack(track): the fields the model follows
GDPlexTrack(userRating, duration) ==
    [userRating |-> userRating, duration |-> duration, cached_user_rating |-> None]

\* the main program is not running
MainIdle ==
    /\ pc = "idle"
    /\ all_tracks = << >>
    /\ unique_tracks = << >>
    /\ return_sets = << >>
    /\ flagged = << >>
    /\ enable_safe_mode = FALSE
    /\ track_set_index = 0
    /\ delete_tracks = << >>
    /\ delete_calls = << >>
    /\ catalog = {}
    /\ playlist_calls = << >>
    /\ status = "idle"
    /\ exit_code = -1
    /\ set_attrs = << >>

\* the bounds are excluded
durations_are_close_Strict(t, duration, variance) ==
    t.duration - variance < duration /\ duration < t.duration + variance

\* return self.duration - variance <= duration <= self.duration + variance
durations_are_close(t, duration, variance) ==
    t.duration - variance <= duration /\ duration <= t.duration + variance

\* if self._user_rating: neither None nor 0.0
Truthy(opt) == opt # None /\ opt[1] # 0

\* the user_rating property: the value returned, the track afterwards, and
\* whether the plex track was asked for its userRating
user_rating(t) ==
    IF Truthy(t.cached_user_rating)
    THEN [value |-> t.cached_user_rating, track |-> t, lookups |-> 0]
    ELSE LET v == IF t.userRating # None THEN t.userRating ELSE Some(0)
         IN  [value |-> v, track |-> [t EXCEPT !.cached_user_rating = v], lookups |-> 1]

\* for _ in range(rating): stars += "*"
RECURSIVE Stars(_)
Stars(n) == IF n <= 0 THEN << >> ELSE Append(Stars(n - 1), "*")

Unrated == << "U", "n", "r", "a", "t", "e", "d" >>

\* half the rating, rounded up
StarCount_RoundUp(rating) == (rating + 1) \div 2

\* rating: int = int(self.user_rating // 2)
StarCount(rating) == rating \div 2

\* the star_rating property, which reads self.user_rating twice
star_rating(t) ==
    LET first == user_rating(t)
    IN  IF first.value # None
        THEN LET second == user_rating(first.track)
             IN  [value |-> Stars(StarCount(second.value[1])),
                  track |-> second.track,
                  lookups |-> first.lookups + second.lookups]
        ELSE [value |-> Unrated, track |-> first.track, lookups |-> first.lookups]

TrackInit ==
    /\ MainIdle
    /\ gd_duplicate_tracks = << >>
    /\ \E u \in UserRatings, d \in TrackDurations : gd_plex_track = GDPlexTrack(u, d)
    /\ lookups = 0
    /\ result = [op |-> "none"]

\* gd_plex_track.user_rating is read
ReadUserRating ==
    /\ LET r == user_rating(gd_plex_track)
       IN  /\ lookups + r.lookups <= MaxLookups
           /\ gd_plex_track' = r.track
           /\ lookups' = lookups + r.lookups
           /\ result' = [op |-> "user_rating", value |-> r.value]
    /\ UNCHANGED << mainvars, gd_duplicate_tracks >>

\* gd_plex_track.star_rating is read
ReadStarRating ==
    /\ LET r == star_rating(gd_plex_track)
       IN  /\ lookups + r.lookups <= MaxLookups
           /\ gd_plex_track' = r.track
           /\ lookups' = lookups + r.lookups
           /\ result' = [op |-> "star_rating", value |-> r.value]
    /\ UNCHANGED << mainvars, gd_duplicate_tracks >>

\* gd_plex_track.durations_are_close(duration, variance) is called
CallDurationsAreClose ==
    /\ \E duration \in CompareDurations, variance \in Variances :
          result' = [op |-> "durations_are_close", duration |-> duration,
                     variance |-> variance,
                     value |-> durations_are_close(gd_plex_track, duration, variance)]
    /\ UNCHANGED << mainvars, gd_duplicate_tracks, gd_plex_track, lookups >>

TrackNext ==
    \/ ReadUserRating
    \/ ReadStarRating
    \/ CallDurationsAreClose

TrackSpec == TrackInit /\ [][TrackNext]_vars

-----------------------------------------------------------------------------
\* GDDuplicateSet (src/models/gd_duplicate_set.py), exercised on its own.  The
\* set sees a member through its attributes user_rating, play_count,
\* flagged_for_deletion and track.

\* Most members of the set.
MaxMembers == 3

\* the values of the members' user_rating and the view counts behind play_count
SetRatings == { 0, 2, 3 }
ViewCounts == { 0, 1 }

\* a member as GDDuplicateSet(duplicate_tracks) receives it, at position p
GDMember(rating, views, p) ==
    [user_rating |-> rating, play_count |-> IntToStr(views),
     flagged_for_deletion |-> FALSE, track |-> [key |-> p]]

\* the position list[index] denotes, counted from 1; 0 when it raises IndexError
PyIndex(len, index) ==
    IF 0 <= index /\ index < len THEN index + 1
    ELSE IF -len <= index /\ index < 0 THEN len + index + 1
    ELSE 0

\* the flag is set, not flipped
gd_toggle_delete_SetsFlag(tracks, index) ==
    LET p == PyIndex(Len(tracks), index)
    IN  IF p = 0 THEN [raised |-> TRUE, tracks |-> tracks]
        ELSE [raised |-> FALSE,
              tracks |-> [tracks EXCEPT ![p].flagged_for_deletion = TRUE]]

\* toggle_delete(index): IndexError, or the set with the member's flag flipped
gd_toggle_delete(tracks, index) ==
    LET p == PyIndex(Len(tracks), index)
    IN  IF p = 0 THEN [raised |-> TRUE, tracks |-> tracks]
        ELSE [raised |-> FALSE,
              tracks |-> [tracks EXCEPT ![p].flagged_for_deletion = ~@]]

\* for track in self.duplicate_tracks: if track.flagged_for_deletion: return True
RECURSIVE has_track_to_delete(_)
has_track_to_delete(tracks) ==
    IF tracks = << >> THEN FALSE
    ELSE IF Head(tracks).flagged_for_deletion THEN TRUE
    ELSE has_track_to_delete(Tail(tracks))

\* true as soon as one member is flagged
all_tracks_selected_Any(tracks) == has_track_to_delete(tracks)

\* for track in self.duplicate_tracks: if not track.flagged_for_deletion: return False
RECURSIVE all_tracks_selected(_)
all_tracks_selected(tracks) ==
    IF tracks = << >> THEN TRUE
    ELSE IF ~Head(tracks).flagged_for_deletion THEN FALSE
    ELSE all_tracks_selected(Tail(tracks))

\* the plex tracks of the members that are not flagged
gd_flagged_delete_plex_tracks_Unflagged(tracks) ==
    LET f == SelectSeq(tracks, LAMBDA t : ~t.flagged_for_deletion)
    IN  [k \in 1..Len(f) |-> f[k].track]

\* flagged_delete_plex_tracks(): track.track of each flagged member, in member order
RECURSIVE gd_flagged_delete_plex_tracks(_)
gd_flagged_delete_plex_tracks(tracks) ==
    IF tracks = << >> THEN << >>
    ELSE (IF Head(tracks).flagged_for_deletion THEN << Head(tracks).track >> ELSE << >>)
         \o gd_flagged_delete_plex_tracks(Tail(tracks))

\* flagged_delete_gd_plex_tracks: each flagged member, in member order
RECURSIVE flagged_delete_gd_plex_tracks(_)
flagged_delete_gd_plex_tracks(tracks) ==
    IF tracks = << >> THEN << >>
    ELSE (IF Head(tracks).flagged_for_deletion THEN << Head(tracks) >> ELSE << >>)
         \o flagged_delete_gd_plex_tracks(Tail(tracks))

\* the flag is assigned the outcome of every comparison, so the last one wins
RatingStep_LastWins(conflicting, base_rating, track) == base_rating # track.user_rating

\* if base_rating != track.user_rating: conflicting_rating = True
RatingStep(conflicting, base_rating, track) ==
    IF base_rating # track.user_rating THEN TRUE ELSE conflicting

RECURSIVE RatingLoop(_, _, _)
RatingLoop(tracks, base_rating, conflicting) ==
    IF tracks = << >> THEN conflicting
    ELSE RatingLoop(Tail(tracks), base_rating,
                    RatingStep(conflicting, base_rating, Head(tracks)))

\* _ratings_conflict(): every member's rating against the first member's
ratings_conflict(tracks) == RatingLoop(tracks, tracks[1].user_rating, FALSE)

\* if base_play_count != track.play_count: conflicting_play_count = True
PlayCountStep(conflicting, base_play_count, track) ==
    IF base_play_count # track.play_count THEN TRUE ELSE conflicting

RECURSIVE PlayCountLoop(_, _, _)
PlayCountLoop(tracks, base_play_count, conflicting) ==
    IF tracks = << >> THEN conflicting
    ELSE PlayCountLoop(Tail(tracks), base_play_count,
                       PlayCountStep(conflicting, base_play_count, Head(tracks)))

\* _play_counts_conflict(): every member's play count against the first member's
play_counts_conflict(tracks) == PlayCountLoop(tracks, tracks[1].play_count, FALSE)

\* only the play counts are compared
has_conflicting_metadata_PlayCountsOnly(tracks) == play_counts_conflict(tracks)

\* return self._play_counts_conflict() or self._ratings_conflict()
has_conflicting_metadata(tracks) ==
    play_counts_conflict(tracks) \/ ratings_conflict(tracks)

\* GDDuplicateSet(duplicate_tracks), of one member at least, no member flagged
SetInit ==
    /\ MainIdle
    /\ \E n \in 1..MaxMembers :
          \E ratings \in [1..n -> SetRatings], views \in [1..n -> ViewCounts] :
             gd_duplicate_tracks = [p \in 1..n |-> GDMember(ratings[p], views[p], p)]
    /\ gd_plex_track = << >>
    /\ lookups = 0
    /\ result = [op |-> "none"]

SetUnchanged == UNCHANGED << mainvars, gd_plex_track, lookups >>

\* duplicate_set.toggle_delete(index), for an index in range or out of it
ToggleDelete ==
    /\ \E index \in (-(Len(gd_duplicate_tracks) + 1))..Len(gd_duplicate_tracks) :
          LET r == gd_toggle_delete(gd_duplicate_tracks, index)
          IN  /\ gd_duplicate_tracks' = r.tracks
              /\ result' = [op |-> "toggle_delete", index |-> index, raised |-> r.raised]
    /\ SetUnchanged

\* the call `op` returned `value` and left the set as it was
Returned(op, value) ==
    /\ result' = [op |-> op, value |-> value]
    /\ UNCHANGED gd_duplicate_tracks
    /\ SetUnchanged

ReadHasTrackToDelete ==
    Returned("has_track_to_delete", has_track_to_delete(gd_duplicate_tracks))

ReadAllTracksSelected ==
    Returned("all_tracks_selected", all_tracks_selected(gd_duplicate_tracks))

CallFlaggedDeletePlexTracks ==
    Returned("flagged_delete_plex_tracks", gd_flagged_delete_plex_tracks(gd_duplicate_tracks))

ReadFlaggedDeleteGdPlexTracks ==
    Returned("flagged_delete_gd_plex_tracks",
             flagged_delete_gd_plex_tracks(gd_duplicate_tracks))

ReadHasConflictingMetadata ==
    Returned("has_conflicting_metadata", has_conflicting_metadata(gd_duplicate_tracks))

CallRatingsConflict ==
    Returned("_ratings_conflict", ratings_conflict(gd_duplicate_tracks))

CallPlayCountsConflict ==
    Returned("_play_counts_conflict", play_counts_conflict(gd_duplicate_tracks))

SetNext ==
    \/ ToggleDelete
    \/ ReadHasTrackToDelete
    \/ ReadAllTracksSelected
    \/ CallFlaggedDeletePlexTracks
    \/ ReadFlaggedDeleteGdPlexTracks
    \/ ReadHasConflictingMetadata
    \/ CallRatingsConflict
    \/ CallPlayCountsConflict

SetSpec == SetInit /\ [][SetNext]_vars

-----------------------------------------------------------------------------
\* GDDuplicateSet.duration_str, exercised on its own

\* Longest of the evenly spaced durations, in half seconds.
MaxHalfSeconds == 125

\* durations in milliseconds: every half second up to the bound, the test's
\* 320000, and the last millisecond before a full minute and a full hour
SetDurations ==
    { 500 * k : k \in 0..MaxHalfSeconds }
        \cup { 59999, 119999, 320000, 3599999, 3600000 }

\* GDDuplicateSet(duplicate_tracks): the fields duration_str needs
GDDuplicateSet(tracks) ==
    [duplicate_tracks |-> tracks,
     duration         |-> tracks[1].duration,
     duplicate_count  |-> Len(tracks)]

\* divmod(x, y) of a non-negative x held in thousandths: the whole quotient, and
\* the remainder in thousandths
divmod(x, y) == << x \div (y * 1000), x % (y * 1000) >>

\* the seconds are rounded to the nearest whole second
int_Rounded(x) == (x + 500) \div 1000

\* int(x) of a non-negative x held in thousandths: the fraction is cut off
int(x) == x \div 1000

\* m, s = divmod(self.duration / 1000, 60); return f"{int(m)}m{int(s)}s"
duration_str(set) ==
    LET ms == divmod(set.duration, 60)
        m  == ms[1]
        s  == int(ms[2])
    IN  IntToStr(m) \o << "m" >> \o IntToStr(s) \o << "s" >>

\* a set of two members; how long the second one is does not matter
DurationInit ==
    /\ MainIdle
    /\ \E d \in SetDurations, other \in { 0, 320000 } :
          gd_duplicate_tracks = << [duration |-> d], [duration |-> other] >>
    /\ gd_plex_track = << >>
    /\ lookups = 0
    /\ result = [op |-> "none"]

ReadDurationStr ==
    /\ result' = [op |-> "duration_str",
                  value |-> duration_str(GDDuplicateSet(gd_duplicate_tracks))]
    /\ UNCHANGED << mainvars, gd_duplicate_tracks, gd_plex_track, lookups >>

DurationNext == ReadDurationStr

DurationSpec == DurationInit /\ [][DurationNext]_vars

-----------------------------------------------------------------------------
\* What the properties below speak of

\* duplicate_finder has just returned its sets to main
FinderReturned == pc = "ask_safe_mode" \/ status = "no_duplicates"

\* duplicate_finder has returned at some point of the run
Grouped ==
    /\ pc \notin {"setup", "find"}
    /\ status \notin {"login_failed", "no_library_name", "library_not_found"}

Fields == {"title", "artist", "album", "duration"}

\* the fields on which two tracks differ
DifferingFields(a, b) == { f \in Fields : a[f] # b[f] }

\* the duplicate sets a track is a member of
SetsOf(i) == { k \in DOMAIN return_sets : i \in Range(return_sets[k]) }

\* the members of all the duplicate sets
Members == UNION { Range(return_sets[k]) : k \in DOMAIN return_sets }

PosIn(s, i) == CHOOSE p \in DOMAIN s : s[p] = i

SetOf(i) == CHOOSE k \in DOMAIN return_sets : i \in Range(return_sets[k])

\* member i comes before member j when the sets are walked in order, each in member order
Before(i, j) ==
    \/ SetOf(i) < SetOf(j)
    \/ /\ SetOf(i) = SetOf(j)
       /\ PosIn(return_sets[SetOf(i)], i) < PosIn(return_sets[SetOf(j)], j)

\* s lists the flagged members, each once, in set order and then member order
IsFlaggedTraversal(s) ==
    /\ Range(s) = { i \in Members : flagged[i] }
    /\ \A p, q \in DOMAIN s : p < q => Before(s[p], s[q])

\* the tracks of the delete calls made so far
DeletedIds == [k \in DOMAIN delete_calls |-> delete_calls[k].track]

-----------------------------------------------------------------------------
\* C1: tracks with the same title, artist, album and duration are members of one
\* and the same duplicate set, of no other, and every set lists its members in
\* the order of the scan.
C1_SameFieldsOneSetInOrder ==
    FinderReturned =>
        /\ \A i, j \in DOMAIN all_tracks :
              (i < j /\ all_tracks[i] = all_tracks[j]) =>
                 \E k \in DOMAIN return_sets :
                    /\ SetsOf(i) = {k}
                    /\ SetsOf(j) = {k}
                    /\ Cardinality({ p \in DOMAIN return_sets[k] : return_sets[k][p] = i }) = 1
                    /\ PosIn(return_sets[k], i) < PosIn(return_sets[k], j)
        /\ \A k \in DOMAIN return_sets :
              \A p, q \in DOMAIN return_sets[k] :
                 p < q => return_sets[k][p] < return_sets[k][q]

\* C1 witness: two sets were found, and one holds two equal tracks that are not
\* neighbours in the scan
C1_Witness ==
    /\ FinderReturned
    /\ Len(return_sets) = 2
    /\ \E k \in DOMAIN return_sets :
          \E i, j \in Range(return_sets[k]) :
             i + 1 < j /\ all_tracks[i] = all_tracks[j]

\* C2: two tracks have the same digest exactly when their four fields are equal,
\* and tracks of one duplicate set have equal fields.
C2_DigestIffFields ==
    FinderReturned =>
        \A i, j \in DOMAIN all_tracks :
           /\ (hash_val(all_tracks[i]) = hash_val(all_tracks[j]))
                 <=> (all_tracks[i] = all_tracks[j])
           /\ (SetsOf(i) \cap SetsOf(j) # {}) => all_tracks[i] = all_tracks[j]

\* C3: two tracks that differ in exactly one of the four fields are never
\* members of the same duplicate set.
C3_OneFieldApartStaysApart ==
    FinderReturned =>
        \A i, j \in DOMAIN all_tracks :
           Cardinality(DifferingFields(all_tracks[i], all_tracks[j])) = 1
              => SetsOf(i) \cap SetsOf(j) = {}

\* C3 witness: three tracks, two equal and the third 1 ms longer or shorter; the
\* one set found holds the two
C3_Witness ==
    /\ FinderReturned
    /\ Len(all_tracks) = 3
    /\ Len(return_sets) = 1
    /\ Len(return_sets[1]) = 2
    /\ \E i \in Range(return_sets[1]) :
          \E j \in DOMAIN all_tracks \ Range(return_sets[1]) :
             /\ DifferingFields(all_tracks[i], all_tracks[j]) = {"duration"}
             /\ all_tracks[i].duration - all_tracks[j].duration \in {-1, 1}

\* the tracks with digest h
WithDigest(h) == { i \in DOMAIN all_tracks : hash_val(all_tracks[i]) = h }

\* the position at which the digest of set k was first seen
FirstSeen(k) ==
    LET m == WithDigest(hash_val(all_tracks[return_sets[k][1]]))
    IN  CHOOSE i \in m : \A j \in m : i <= j

\* C4: a digest with two tracks or more gets one set, made of all its tracks; a
\* digest with one track gets none; the sets come in the order their digests were
\* first seen; every set has two members at least.
C4_OneSetPerRepeatedDigest ==
    FinderReturned =>
        /\ \A i \in DOMAIN all_tracks :
              LET m == WithDigest(hash_val(all_tracks[i]))
                  hits == { k \in DOMAIN return_sets : Range(return_sets[k]) \cap m # {} }
              IN  IF Cardinality(m) >= 2
                  THEN /\ Cardinality(hits) = 1
                       /\ \A k \in hits : /\ Range(return_sets[k]) = m
                                          /\ Len(return_sets[k]) = Cardinality(m)
                  ELSE hits = {}
        /\ \A k \in DOMAIN return_sets : Len(return_sets[k]) >= 2
        /\ \A k1, k2 \in DOMAIN return_sets : k1 < k2 => FirstSeen(k1) < FirstSeen(k2)

\* C4 witness: two sets whose tracks alternate in the scan
C4_Witness ==
    /\ FinderReturned
    /\ Len(return_sets) = 2
    /\ return_sets[1][2] > return_sets[2][1]

\* C4 witness of the dropped digest lies in the states with a track in no set
C4_DroppedWitness ==
    /\ FinderReturned
    /\ Len(return_sets) = 1
    /\ DOMAIN all_tracks \ Members # {}

\* C5: in the review loop the cursor is on one of the N sets.
C5_CursorInRange ==
    pc = "review" => (track_set_index >= 1 /\ track_set_index <= Len(return_sets))

\* C6: the next command moves the cursor to min(cursor + 1, N) and the loop goes on.
C6_NextClamps ==
    [][ReviewNext =>
          /\ track_set_index' = Min(track_set_index + 1, Len(return_sets))
          /\ LookupOk']_vars

\* C7: the previous command moves the cursor to max(cursor - 1, 1), changes no
\* flag, and the loop goes on to prompt again.
C7_PreviousClamps ==
    [][ReviewPrevious =>
          /\ track_set_index' = Max(track_set_index - 1, 1)
          /\ flagged' = flagged
          /\ pc' = "review"
          /\ LookupOk']_vars

\* C7 witness: the cursor is back on the first set with a member of the second flagged
C7_Witness ==
    /\ pc = "review"
    /\ track_set_index = 1
    /\ Len(return_sets) = 2
    /\ \E i \in Range(return_sets[2]) : flagged[i]

\* C8: the delete calls made are a prefix of the flagged members in traversal
\* order; only the last call can have failed, and then the failure has ended the
\* run; the catalog has lost the tracks of the calls that succeeded, and only those.
C8_DeleteFailFast ==
    /\ (pc = "deleting" \/ delete_calls # << >>) => IsFlaggedTraversal(delete_tracks)
    /\ Len(delete_calls) <= Len(delete_tracks)
    /\ DeletedIds = SubSeq(delete_tracks, 1, Len(delete_calls))
    /\ \A k \in DOMAIN delete_calls :
          \/ delete_calls[k].ok
          \/ /\ k = Len(delete_calls)
             /\ pc = "exit"
             /\ status = "DeleteFailed"
             /\ exit_code = 1
    /\ catalog = DOMAIN all_tracks \ { delete_calls[k].track :
                                         k \in { n \in DOMAIN delete_calls : delete_calls[n].ok } }

\* C8 witness: of three flagged tracks the second delete failed
C8_Witness ==
    /\ status = "DeleteFailed"
    /\ Len(delete_tracks) = 3
    /\ Len(delete_calls) = 2
    /\ Cardinality(catalog) = Len(all_tracks) - 1

\* C9: the archive commit makes one createPlaylist call, named
\* "GoshDarned Duplicates", whose items are the flagged members in traversal
\* order; no delete call is made and the catalog keeps every track.
C9_ArchiveOneCall ==
    /\ Len(playlist_calls) <= 1
    /\ (status \in {"playlist_created", "PlaylistFailed"}) <=> (Len(playlist_calls) = 1)
    /\ \A c \in DOMAIN playlist_calls :
          /\ playlist_calls[c].title = "GoshDarned Duplicates"
          /\ IsFlaggedTraversal(playlist_calls[c].items)
          /\ delete_calls = << >>
          /\ catalog = DOMAIN all_tracks
    /\ enable_safe_mode /\ Grouped => delete_calls = << >> /\ catalog = DOMAIN all_tracks

\* C9 witness: a playlist of three tracks from two sets, one member left out
C9_Witness ==
    /\ status = "playlist_created"
    /\ Len(return_sets) = 2
    /\ Len(playlist_calls) = 1
    /\ Len(playlist_calls[1].items) = 3

\* the tracks flagged for deletion
Flagged == { i \in DOMAIN flagged : flagged[i] }

\* C10: a delete commit in which no call failed has deleted the flagged tracks,
\* each by one call, and no other track; the playlist of an archive commit holds
\* the flagged tracks, each once, and no other track.
C10_ExactlyTheFlagged ==
    /\ status = "deleted" =>
          /\ catalog = DOMAIN all_tracks \ Flagged
          /\ Range(DeletedIds) = Flagged
          /\ Len(delete_calls) = Cardinality(Flagged)
    /\ \A c \in DOMAIN playlist_calls :
          /\ Range(playlist_calls[c].items) = Flagged
          /\ Len(playlist_calls[c].items) = Cardinality(Flagged)

\* C10 witness: a delete commit of some members, one per set, the others kept
C10_Witness ==
    /\ status = "deleted"
    /\ Len(return_sets) = 2
    /\ \A k \in DOMAIN return_sets :
          /\ \E i \in Range(return_sets[k]) : flagged[i]
          /\ \E i \in Range(return_sets[k]) : ~flagged[i]

\* C11: a run the user cancelled at a confirmation has made no delete call and no
\* createPlaylist call, and the catalog holds every track, whatever was flagged.
C11_CancelCommitsNothing ==
    status = "cancelled" =>
        /\ pc = "exit"
        /\ delete_calls = << >>
        /\ playlist_calls = << >>
        /\ catalog = DOMAIN all_tracks

\* C11 witness: with tracks flagged and safe mode off, "Continue with delete?" was
\* answered no
C11_Witness ==
    /\ status = "cancelled"
    /\ ~enable_safe_mode
    /\ Cardinality(Flagged) >= 2

\* C12: no run makes both a createPlaylist call and a delete call; the playlist is
\* made only with enable_safe_mode set, deletes only with it unset; and once the
\* safe mode question is answered enable_safe_mode never changes.
C12_OneStrategyFixedBeforeReview ==
    /\ [](/\ ~(playlist_calls # << >> /\ delete_calls # << >>)
          /\ (playlist_calls # << >> => enable_safe_mode)
          /\ (delete_calls # << >> => ~enable_safe_mode))
    /\ [][pc \notin {"setup", "find", "ask_safe_mode"}
             => enable_safe_mode' = enable_safe_mode]_vars

\* C12 witness: a run that deleted two tracks and made no playlist
C12_Witness ==
    /\ status = "deleted"
    /\ Len(delete_calls) >= 2
    /\ playlist_calls = << >>
    /\ ~enable_safe_mode

\* the positions of the flagged members of the set
FlaggedPositions ==
    { p \in 1..Len(gd_duplicate_tracks) : gd_duplicate_tracks[p].flagged_for_deletion }

\* C13: for every valid index i, toggle_delete(i) raises nothing and flips the
\* flag of member i only; a second toggle_delete(i) restores the members, and
\* with them the flagged lists, to what they were.
C13_ToggleTwiceRestores ==
    \A i \in 0..(Len(gd_duplicate_tracks) - 1) :
        LET once  == gd_toggle_delete(gd_duplicate_tracks, i)
            twice == gd_toggle_delete(once.tracks, i)
        IN  /\ ~once.raised /\ ~twice.raised
            /\ once.tracks[i + 1].flagged_for_deletion
                  = ~gd_duplicate_tracks[i + 1].flagged_for_deletion
            /\ \A p \in 1..Len(gd_duplicate_tracks) :
                  p # i + 1 => once.tracks[p] = gd_duplicate_tracks[p]
            /\ twice.tracks = gd_duplicate_tracks
            /\ flagged_delete_gd_plex_tracks(twice.tracks)
                  = flagged_delete_gd_plex_tracks(gd_duplicate_tracks)
            /\ gd_flagged_delete_plex_tracks(twice.tracks)
                  = gd_flagged_delete_plex_tracks(gd_duplicate_tracks)

\* C13 witness: a set of two members at least whose last toggle, at a valid
\* index, left no member flagged: that member was toggled and toggled back
C13_Witness ==
    /\ result.op = "toggle_delete"
    /\ ~result.raised
    /\ result.index \in 0..(Len(gd_duplicate_tracks) - 1)
    /\ Len(gd_duplicate_tracks) >= 2
    /\ FlaggedPositions = {}

\* C14: toggle_delete(index) raises IndexError for every index outside
\* 0..memberCount-1, the negative ones included.
C14_OutOfRangeRaises ==
    (result.op = "toggle_delete"
        /\ result.index \notin 0..(Len(gd_duplicate_tracks) - 1)) => result.raised

C16_SomeAndAllFlagged ==
    /\ result.op = "has_track_to_delete" =>
          (result.value <=> FlaggedPositions # {})
    /\ result.op = "all_tracks_selected" =>
          (result.value <=> FlaggedPositions = 1..Len(gd_duplicate_tracks))

\* C16 witness: some member is flagged, another is not, and all_tracks_selected
\* answered false
C16_Witness ==
    /\ result.op = "all_tracks_selected"
    /\ ~result.value
    /\ FlaggedPositions # {}
    /\ FlaggedPositions # 1..Len(gd_duplicate_tracks)

\* C17: has_conflicting_metadata is true exactly when some member's user rating
\* or some member's play count differs from the first member's.
C17_ConflictIffDiffersFromFirst ==
    result.op = "has_conflicting_metadata" =>
        (result.value <=>
            \E p \in 1..Len(gd_duplicate_tracks) :
               \/ gd_duplicate_tracks[p].user_rating # gd_duplicate_tracks[1].user_rating
               \/ gd_duplicate_tracks[p].play_count # gd_duplicate_tracks[1].play_count)

\* C17 witness: the members agree on the play count, one rating differs from the
\* first member's, and a conflict is reported
C17_Witness ==
    /\ result.op = "has_conflicting_metadata"
    /\ result.value
    /\ \A p \in 1..Len(gd_duplicate_tracks) :
          gd_duplicate_tracks[p].play_count = gd_duplicate_tracks[1].play_count
    /\ \E p \in 1..Len(gd_duplicate_tracks) :
          gd_duplicate_tracks[p].user_rating # gd_duplicate_tracks[1].user_rating

\* the set with the members at positions 1 and p exchanged
FirstSwapped(p) ==
    [gd_duplicate_tracks EXCEPT ![1] = gd_duplicate_tracks[p],
                                ![p] = gd_duplicate_tracks[1]]

\* C18: _ratings_conflict (_play_counts_conflict) is true exactly when two members,
\* at any positions, have different ratings (play counts), and gives the same
\* answer whichever member stands first.
C18_BaseRelativeIsAllPairs ==
    LET n == Len(gd_duplicate_tracks)
    IN  /\ result.op = "_ratings_conflict" =>
              /\ result.value <=>
                    \E p, q \in 1..n :
                       gd_duplicate_tracks[p].user_rating # gd_duplicate_tracks[q].user_rating
              /\ \A p \in 1..n : ratings_conflict(FirstSwapped(p)) = result.value
        /\ result.op = "_play_counts_conflict" =>
              /\ result.value <=>
                    \E p, q \in 1..n :
                       gd_duplicate_tracks[p].play_count # gd_duplicate_tracks[q].play_count
              /\ \A p \in 1..n : play_counts_conflict(FirstSwapped(p)) = result.value

\* C18 witness: the last of three members agrees with the first, the one between
\* them does not, and _ratings_conflict answered true
C18_Witness ==
    /\ result.op = "_ratings_conflict"
    /\ result.value
    /\ Len(gd_duplicate_tracks) = 3
    /\ gd_duplicate_tracks[3].user_rating = gd_duplicate_tracks[1].user_rating
    /\ gd_duplicate_tracks[2].user_rating # gd_duplicate_tracks[1].user_rating

\* C19: the accessor goes to the plex track for the userRating once at most,
\* whatever the rating, and returns the rating, 0.0 for an absent one.
C19_LookupAtMostOnce ==
    /\ lookups <= 1
    /\ result.op = "user_rating" =>
          result.value = (IF gd_plex_track.userRating = None
                          THEN Some(0) ELSE gd_plex_track.userRating)

\* C20: for a rating r of 0..10 star_rating is floor(r / 2) star glyphs: odd
\* ratings round down, 0 gives the empty string, 10 gives five stars.
C20_StarsAreHalfTheRating ==
    (result.op = "star_rating" /\ gd_plex_track.userRating # None) =>
        LET r == gd_plex_track.userRating[1]
            n == Len(result.value)
        IN  /\ \A k \in 1..n : result.value[k] = "*"
            /\ n \in 0..5
            /\ 2 * n <= r /\ r < 2 * n + 2
            /\ n = << 0, 0, 1, 1, 2, 2, 3, 3, 4, 4, 5 >>[r + 1]

\* C20 witness: the star rating of a track rated 9 was read and is four stars
C20_Witness ==
    /\ result.op = "star_rating"
    /\ gd_plex_track.userRating = Some(9)
    /\ result.value = << "*", "*", "*", "*" >>

\* C21: the star rating of a record whose rating is absent is "Unrated", and that
\* of a record rated 0.0 is the empty string.
C21_AbsentIsUnrated ==
    result.op = "star_rating" =>
        /\ gd_plex_track.userRating = None => result.value = Unrated
        /\ gd_plex_track.userRating = Some(0) => result.value = << >>

\* C23: durations_are_close(duration, variance) is true exactly when the record's
\* duration and the given one are variance apart at most; with the default of
\* 5000 ms a difference of 5000 is accepted and one of 5001 is not.
C23_CloseIffWithinVariance ==
    result.op = "durations_are_close" =>
        LET d    == gd_plex_track.duration - result.duration
            diff == IF d < 0 THEN -d ELSE d
        IN  /\ result.value <=> diff <= result.variance
            /\ (result.variance = 5000 /\ diff = 5000) => result.value
            /\ (result.variance = 5000 /\ diff = 5001) => ~result.value
            /\ diff = result.variance + 1 => ~result.value

\* C23 witness: a record of 325000 ms was compared with 320000 ms under the
\* default variance, the upper bound itself, and found close
C23_Witness ==
    /\ result.op = "durations_are_close"
    /\ gd_plex_track.duration = 325000
    /\ result.duration = 320000
    /\ result.variance = DEFAULT_VARIANCE
    /\ result.value

SetupFailures == { "login_failed", "no_library_name", "library_not_found" }

\* how a run ended when an exception left main uncaught
Uncaught == { "IndexError", "PlaylistFailed", "DeleteFailed" }

\* C24: the process exits with code 1 exactly when setup fails, before any track
\* is scanned, and with code 0 when there are no duplicates and when the user
\* cancels at a confirmation.
C24_ExitOneOnlyOnSetupFailure ==
    pc = "exit" =>
        /\ exit_code = 1 <=> status \in SetupFailures
        /\ status \in SetupFailures => (unique_tracks = << >> /\ return_sets = << >>)
        /\ status \in {"no_duplicates", "cancelled"} => exit_code = 0

\* C24 as amended: the process exits with code 1 when setup fails, before any
\* track is scanned, and also when an exception leaves main uncaught (a failed
\* delete or playlist call, the review loop's IndexError); it exits with code 0
\* when there are no duplicates, when the user cancels, and when the commit is done.
C24_ExitOneOnFailure ==
    pc = "exit" =>
        /\ exit_code \in {0, 1}
        /\ exit_code = 1 <=> status \in SetupFailures \cup Uncaught
        /\ status \in SetupFailures =>
              /\ unique_tracks = << >> /\ return_sets = << >>
              /\ delete_calls = << >> /\ playlist_calls = << >>
        /\ status \in Uncaught => unique_tracks # << >>
        /\ status \in {"no_duplicates", "cancelled", "deleted", "playlist_created"}
              => exit_code = 0

\* C24 witness: the library was not found and the process ended with code 1
C24_Witness ==
    /\ pc = "exit"
    /\ status = "library_not_found"
    /\ exit_code = 1
    /\ unique_tracks = << >>

\* the review loop has found the set under the cursor and is about to prompt
AtPrompt == pc = "review" /\ LookupOk

\* the set under the cursor
CurrentSet == return_sets[track_set_index]

Letters == { << "n" >>, << "p" >>, << "d" >> }

\* flags g are flags f with the flag of track i flipped and no other changed
FlippedAt(f, g, i) ==
    /\ DOMAIN g = DOMAIN f
    /\ g[i] = ~f[i]
    /\ \A j \in DOMAIN f \ {i} : g[j] = f[j]

\* C25: a toggle command flips the flag of the member it addresses, the k-th
\* member of the set under the cursor for the answer k, and of no other member of
\* any set; the cursor stays where it is.
C25_ToggleFlipsTheAddressedOnly ==
    /\ [](AtPrompt =>
            \A a \in Inputs \ Letters :
               Accepted(a, choices(CurrentSet)) =>
                  FlippedAt(flagged,
                            toggle_delete(CurrentSet, flagged, del_index(a)),
                            CurrentSet[StrToInt(a)]))
    /\ [][ReviewToggle =>
             /\ track_set_index' = track_set_index
             /\ pc' = "review"
             /\ return_sets' = return_sets
             /\ \E p \in 1..Len(CurrentSet) : FlippedAt(flagged, flagged', CurrentSet[p])]_vars

\* C25 witness: in the second of two sets the second member alone is flagged
C25_Witness ==
    /\ AtPrompt
    /\ track_set_index = 2
    /\ Flagged = { CurrentSet[2] }

\* C26: at every prompt the numbers accepted are exactly 1..memberCount of the set
\* under the cursor, so the index handed to toggle_delete lies in
\* 0..memberCount-1; 0 and memberCount+1 are not accepted.
C26_OnlyMemberNumbersAccepted ==
    AtPrompt =>
        LET n       == Len(CurrentSet)
            offered == choices(CurrentSet)
        IN  /\ { a \in Inputs : Accepted(a, offered) }
                  = { IntToStr(k) : k \in 1..n } \cup Letters
            /\ \A a \in Inputs \ Letters :
                  Accepted(a, offered) => del_index(a) \in 0..(n - 1)
            /\ ~Accepted(IntToStr(0), offered)
            /\ ~Accepted(IntToStr(n + 1), offered)

\* C26 witness: a set of three members is under the cursor and its third member
\* has been flagged
C26_Witness ==
    /\ AtPrompt
    /\ Len(CurrentSet) = 3
    /\ Flagged = { CurrentSet[3] }

\* where main is once the review loop has returned
AfterReview == { "ask_review_list", "playlist", "ask_delete", "deleting" }

\* C27: 'd' is accepted at every prompt and ends the loop at once, leaving the
\* flags as they are; once the loop has ended it is never entered again and no
\* flag changes, and the commit works on the flags as they were then.
C27_DoneIsTerminal ==
    /\ [](AtPrompt => ENABLED ReviewDone)
    /\ [][ReviewDone => (pc' = "ask_review_list" /\ flagged' = flagged)]_vars
    /\ [][(pc \in AfterReview) =>
             /\ pc' \in AfterReview \cup {"exit"}
             /\ flagged' = flagged
             /\ track_set_index' = track_set_index]_vars
    /\ [](/\ \A c \in DOMAIN playlist_calls :
                playlist_calls[c].items = PlaylistItems(return_sets, flagged)
          /\ (pc = "deleting" \/ delete_calls # << >>) =>
                delete_tracks = DeleteList(return_sets, flagged))

\* C27 witness: Done was given at the first of two sets, with a track flagged
C27_Witness ==
    /\ pc = "ask_review_list"
    /\ Len(return_sets) = 2
    /\ track_set_index = 1
    /\ Flagged # {}

\* C28: the warning is shown at a prompt exactly when every member of the set
\* under the cursor is flagged, and with it shown every command is still taken.
C28_WarningIffAllFlagged ==
    /\ AtPrompt => (WarningShown <=> \A i \in Range(CurrentSet) : flagged[i])
    /\ ~AtPrompt => ~WarningShown
    /\ WarningShown =>
          /\ ENABLED ReviewNext
          /\ ENABLED ReviewPrevious
          /\ ENABLED ReviewToggle
          /\ ENABLED ReviewDone

\* C28 witness: the first member of the set under the cursor is flagged, the
\* second is not, and no warning is shown
C28_Witness ==
    /\ AtPrompt
    /\ flagged[CurrentSet[1]]
    /\ ~flagged[CurrentSet[2]]
    /\ ~WarningShown

\* C28 witness: all three members of the set are flagged and the warning is shown
C28_WarnedWitness ==
    /\ WarningShown
    /\ Len(CurrentSet) = 3
    /\ Flagged = Range(CurrentSet)

\* C30: a next or previous command changes no flag of any member of any set.
C30_NavigationKeepsFlags ==
    [][(ReviewNext \/ ReviewPrevious) =>
          (flagged' = flagged /\ return_sets' = return_sets)]_vars

\* C30 witness: with a member of the second set flagged the cursor is back at
\* the first set
C30_Witness ==
    /\ AtPrompt
    /\ Len(return_sets) = 2
    /\ track_set_index = 1
    /\ Flagged = { return_sets[2][1] }

====
